---- MODULE Spec2Model ----
(***************************************************************************)
(* File upload and thumbnailing service: the Upload/API handler, the       *)
(* Metadata Updater and the Media Converter, over one bucket and one       *)
(* metadata table.                                                         *)
(*                                                                         *)
(* Strings are sequences of tokens.  A token stands for a fixed substring  *)
(* (TokLen gives its number of characters, TokChars the classes of the     *)
(* characters it holds), so that lengths of 255/256 and 100/101 characters *)
(* and the characters a validation looks for are all representable.        *)
(***************************************************************************)
EXTENDS Integers, Sequences, FiniteSets, TLC

\* ------------------------------------------------------------------ bounds
NumIds == 2
MaxClock == 1
MaxSize == 1
MaxBatch == 2

\* ------------------------------------------------------- program constants
MaxFileNameLen == 255
MaxContentTypeLen == 100

\* ------------------------------------------------------------------ strings
TokLen(t) ==
  CASE t = "w255" -> 255
    [] t = "w100" -> 100
    [] t = "w99" -> 99
    [] t \in {"f1", "f2", "f3", "f4"} -> 36
    [] t = "application" -> 11
    [] t = "thumbnails" -> 10
    [] t \in {"octet-stream"} -> 12
    [] t = "report" -> 6
    [] t \in {"image", "video", "photo"} -> 5
    [] t \in {".jpg", ".pdf", "jpeg"} -> 4
    [] t \in {"png", "mp4", "pdf", "%2F", "%20", "%2B"} -> 3
    [] OTHER -> 1

\* Character classes: "word" is the regular expression class \w.
TokChars(t) ==
  CASE t \in {"/"} -> {"slash"}
    [] t \in {"\\"} -> {"backslash"}
    [] t \in {" "} -> {"space"}
    [] t \in {"+"} -> {"plus"}
    [] t \in {"-"} -> {"hyphen"}
    [] t \in {"."} -> {"dot"}
    [] t \in {";"} -> {"semicolon"}
    [] t \in {"%"} -> {"percent"}
    [] t \in {"%2F", "%20", "%2B"} -> {"percent", "word"}
    [] t \in {".jpg", ".pdf"} -> {"dot", "word"}
    [] t \in {"octet-stream"} -> {"word", "hyphen"}
    [] t \in {"f1", "f2", "f3", "f4"} -> {"word", "hyphen"}
    [] OTHER -> {"word"}

RECURSIVE StrLen(_)
StrLen(s) == IF s = <<>> THEN 0 ELSE TokLen(Head(s)) + StrLen(Tail(s))

includes(s, class) == \E i \in 1..Len(s) : class \in TokChars(s[i])

startsWith(s, p) == Len(s) >= Len(p) /\ SubSeq(s, 1, Len(p)) = p

\* An optional value (undefined, or a string).
None == [present |-> FALSE, val |-> <<>>]
Some(s) == [present |-> TRUE, val |-> s]

\* JavaScript truthiness of an optional string: undefined and "" are falsy.
Truthy(o) == o.present /\ o.val # <<>>

\* ----------------------------------------------------------- validation
isValidFileName_noslash(name) == StrLen(name) > 0 /\ StrLen(name) <= MaxFileNameLen

isValidFileName(name) ==
  /\ StrLen(name) > 0
  /\ StrLen(name) <= MaxFileNameLen
  /\ ~includes(name, "slash")

\* /^[\w\-\+\.\/]+$/
ContentTypeChars == {"word", "hyphen", "plus", "dot", "slash"}

MatchesContentTypeRegex(type) ==
  /\ StrLen(type) >= 1
  /\ \A i \in 1..Len(type) : TokChars(type[i]) \subseteq ContentTypeChars

isValidContentType_nolength(type) == MatchesContentTypeRegex(type)

isValidContentType(type) ==
  /\ MatchesContentTypeRegex(type)
  /\ StrLen(type) <= MaxContentTypeLen


\* ------------------------------------------------------------------- state
VARIABLES
  table,    \* metadata table: fileId -> item (an item is a function of its attributes)
  objects,  \* bucket: key -> [contentType, size]
  now,      \* the clock read by new Date()
  uuids,    \* the values uuidv4() has returned so far
  issued,   \* the 200 responses of GET /upload-url, in order: [fileId, contentType]
  resp,     \* the last response of the Upload/API handler, with its request
  del,      \* the DELETE /files/{fileId} invocation in flight
  evU,      \* S3 OBJECT_CREATED_PUT notifications not yet handed to the Metadata Updater
  evC,      \* EventBridge "Object Created" events not yet handed to the Media Converter
  upd,      \* the Metadata Updater invocation: [pc, batch, idx, log, result]
  conv,     \* the Media Converter invocation
  tmp       \* scratch files under /tmp of the Media Converter's container

vars == <<table, objects, now, uuids, issued, resp, del, evU, evC, upd, conv, tmp>>

Range(s) == {s[i] : i \in 1..Len(s)}

IdToks == <<"f1", "f2", "f3", "f4">>
\* The values uuidv4() can return: each stands for a 36-character UUID.
Ids == {<<IdToks[i]>> : i \in 1..NumIds}

Times == 0..MaxClock
Sizes == 1..MaxSize

THUMBNAIL_PREFIX == <<"thumbnails", "/">>
ImageJpeg == <<"image", "/", "jpeg">>
ImagePng == <<"image", "/", "png">>
VideoMp4 == <<"video", "/", "mp4">>
ApplicationPdf == <<"application", "/", "pdf">>
OctetStream == <<"application", "/", "octet-stream">>

\* ---------------------------------------------------------- the adapters
\* DynamoDB PutItem: creates the item or replaces the one with the same key.
PutItem(t, item) ==
  [k \in DOMAIN t \cup {item.fileId} |-> IF k = item.fileId THEN item ELSE t[k]]

\* DynamoDB DeleteItem: no error when the item does not exist.
DeleteItem_kept(t, key) == t

DeleteItem(t, key) == [k \in DOMAIN t \ {key} |-> t[k]]

\* DynamoDB UpdateItem SET: the named attributes are written, the others kept;
\* an item that does not exist is created with its key.
SetAttributes(t, key, attrs) ==
  LET old == IF key \in DOMAIN t THEN t[key] ELSE [fileId |-> key]
  IN [k \in DOMAIN t \cup {key} |-> IF k = key THEN attrs @@ old ELSE t[k]]

\* S3 PutObject / DeleteObject.
PutObject(os, key, obj) ==
  [k \in DOMAIN os \cup {key} |-> IF k = key THEN obj ELSE os[k]]

DeleteObject_cascade(os, key) ==
  [k \in DOMAIN os \ {key, THUMBNAIL_PREFIX \o key \o <<".jpg">>} |-> os[k]]

DeleteObject(os, key) == [k \in DOMAIN os \ {key} |-> os[k]]

\* What S3 emits when an object is created by a PUT: the bucket notification for
\* the Metadata Updater (declared: its object.contentType, which the handler
\* reads when present) and the EventBridge event for the Media Converter.
\* Neither rule filters on the key.
S3Notification(key, obj, declared) ==
  [key |-> key, size |-> obj.size, contentType |-> declared]

S3Events(key) == {[key |-> key]}

\* ------------------------------------------------- Upload/API handler
NoResp ==
  [op |-> "none", status |-> 0, error |-> "", fileName |-> None, contentType |-> None,
   url |-> <<>>, items |-> {}, logged |-> ""]

\* createResponse(statusCode, body), kept with the query parameters of its request.
\* url: the key a signed GET URL in the body names; items: the body of GET /files;
\* logged: the fault console.error was given before the response was built.
Response(op, status, error, fileName, contentType) ==
  [op |-> op, status |-> status, error |-> error, fileName |-> fileName,
   contentType |-> contentType, url |-> <<>>, items |-> {}, logged |-> ""]

\* The outer catch: console.error("Lambda error:", error), then the fixed 500.
InternalError(op, fault, fileName, contentType) ==
  [Response(op, 500, "Internal server error", fileName, contentType) EXCEPT !.logged = fault]

\* uuidv4(): a value it has not returned before (a collision of two random
\* 122-bit values is not a behaviour of the program).
uuidv4_reuse(history) == Ids

uuidv4(history) == Ids \ Range(history)

\* The item GET /upload-url writes.
NewFileRecord_completed(fileId, fileName, contentType, createdAt) ==
  [fileId |-> fileId, fileName |-> fileName, contentType |-> contentType,
   status |-> "completed", createdAt |-> createdAt]

NewFileRecord(fileId, fileName, contentType, createdAt) ==
  [fileId |-> fileId, fileName |-> fileName, contentType |-> contentType,
   status |-> "pending", createdAt |-> createdAt]

\* The first check of GET /upload-url: !fileName || !contentType.
MissingParams(fileName, contentType) == ~Truthy(fileName) \/ ~Truthy(contentType)

\* The second check: !isValidFileName(fileName) || !isValidContentType(contentType).
InvalidParams(fileName, contentType) ==
  ~isValidFileName(fileName.val) \/ ~isValidContentType(contentType.val)

\* GET /upload-url?fileName=&contentType=. fault: the adapter call that throws.
IssueUploadUrl(fileName, contentType, fault) ==
  /\ IF MissingParams(fileName, contentType)
     THEN /\ resp' = Response("upload-url", 400, "fileName and contentType are required",
                              fileName, contentType)
          /\ UNCHANGED <<table, uuids, issued>>
     ELSE IF InvalidParams(fileName, contentType)
     THEN /\ resp' = Response("upload-url", 400, "Invalid fileName or contentType",
                              fileName, contentType)
          /\ UNCHANGED <<table, uuids, issued>>
     ELSE /\ Len(uuids) < NumIds
          /\ \E fileId \in uuidv4(uuids) :
               /\ uuids' = Append(uuids, fileId)
               /\ IF fault \in {"sign", "put"}
                  THEN /\ resp' = InternalError("upload-url", fault, fileName, contentType)
                       /\ UNCHANGED <<table, issued>>
                  ELSE /\ table' = PutItem(table,
                            NewFileRecord(fileId, fileName.val, contentType.val, now))
                       /\ issued' = Append(issued,
                            [fileId |-> fileId, contentType |-> contentType.val])
                       /\ resp' = Response("upload-url", 200, "", fileName, contentType)
  /\ UNCHANGED <<objects, now, del, evU, evC, upd, conv, tmp>>

\* DELETE /files/{fileId}, first await: DeleteObject.
DeleteFileObject(fileId, fault) ==
  /\ del.pc = "idle"
  /\ IF fault
     THEN /\ resp' = InternalError("delete", "deleteObject", None, None)
          /\ UNCHANGED <<objects, del>>
     ELSE /\ objects' = DeleteObject(objects, fileId)
          /\ del' = [pc |-> "item", fileId |-> fileId]
          /\ UNCHANGED resp
  /\ UNCHANGED <<table, now, uuids, issued, evU, evC, upd, conv, tmp>>

\* DELETE /files/{fileId}, second await: DeleteItem, then 200.
DeleteFileItem(fault) ==
  /\ del.pc = "item"
  /\ del' = [pc |-> "idle", fileId |-> <<>>]
  /\ IF fault
     THEN /\ resp' = InternalError("delete", "deleteItem", None, None)
          /\ UNCHANGED table
     ELSE /\ table' = DeleteItem(table, del.fileId)
          /\ resp' = Response("delete", 200, "File deleted", None, None)
  /\ UNCHANGED <<objects, now, uuids, issued, evU, evC, upd, conv, tmp>>

\* getSignedUrl(s3Client, new GetObjectCommand({Bucket, Key}), {expiresIn}): the
\* presigner signs the request locally with the function's credentials; it sends
\* nothing to the bucket, so the URL it returns names the key whether or not an
\* object is stored there.
getSignedUrl(os, key) == key

\* The key GET /files/{fileId}/thumbnail signs: `thumbnails/${fileId}.jpg`.
apiThumbnailKey(fileId) == <<"thumbnails", "/">> \o fileId \o <<".jpg">>

\* GET /files/{fileId}/thumbnail. fault: getSignedUrl throws (inner catch).
IssueThumbnailUrl(fileId, fault) ==
  /\ IF fileId = <<>>
     THEN resp' = Response("thumbnail", 400, "fileId is required", None, None)
     ELSE IF fault
     THEN resp' = [Response("thumbnail", 404, "Thumbnail not found", None, None)
                     EXCEPT !.logged = "sign"]
     ELSE resp' = [Response("thumbnail", 200, "", None, None)
                     EXCEPT !.url = getSignedUrl(objects, apiThumbnailKey(fileId))]
  /\ UNCHANGED <<table, objects, now, uuids, issued, del, evU, evC, upd, conv, tmp>>

\* The attributes GET /files copies out of each item; JSON.stringify drops the
\* ones that are undefined.
ListedAttributes ==
  {"fileId", "fileName", "contentType", "status", "createdAt", "uploadedAt", "fileSize"}

ListItem(item) == [a \in DOMAIN item \cap ListedAttributes |-> item[a]]

\* Scan with Limit: one page of at most ScanLimit items.
ScanLimit == 50

ScanPages(t) ==
  {page \in SUBSET DOMAIN t :
     Cardinality(page) = IF Cardinality(DOMAIN t) < ScanLimit
                         THEN Cardinality(DOMAIN t) ELSE ScanLimit}

\* GET /files. fault: the Scan throws (outer catch).
ListFiles(fault) ==
  /\ IF fault
     THEN resp' = InternalError("list", "scan", None, None)
     ELSE \E page \in ScanPages(table) :
            resp' = [Response("list", 200, "", None, None)
                       EXCEPT !.items = {ListItem(table[k]) : k \in page}]
  /\ UNCHANGED <<table, objects, now, uuids, issued, del, evU, evC, upd, conv, tmp>>

\* GET /files/{fileId}. fault: getSignedUrl throws (inner catch).
IssueDownloadUrl(fileId, fault) ==
  /\ IF fileId = <<>>
     THEN resp' = Response("download", 400, "fileId required", None, None)
     ELSE IF fault
     THEN resp' = [Response("download", 404, "File not found", None, None)
                     EXCEPT !.logged = "sign"]
     ELSE resp' = [Response("download", 200, "", None, None)
                     EXCEPT !.url = getSignedUrl(objects, fileId)]
  /\ UNCHANGED <<table, objects, now, uuids, issued, del, evU, evC, upd, conv, tmp>>

\* ------------------------------------------------------------ environment
\* The client PUTs through a signed URL it was given: the key and the content
\* type are the ones signed. S3 then notifies both consumers.
ClientUpload(i, size, declared) ==
  LET key == issued[i].fileId
      obj == [contentType |-> Some(issued[i].contentType), size |-> size]
  IN /\ objects' = PutObject(objects, key, obj)
     /\ evU' = evU \cup {S3Notification(key, obj, declared)}
     /\ evC' = evC \cup S3Events(key)
     /\ UNCHANGED <<table, now, uuids, issued, resp, del, upd, conv, tmp>>

Tick ==
  /\ now < MaxClock
  /\ now' = now + 1
  /\ UNCHANGED <<table, objects, uuids, issued, resp, del, evU, evC, upd, conv, tmp>>

\* ----------------------------------------------------- Metadata Updater
\* String.prototype.trim on a token string: leading and trailing blanks go.
RECURSIVE trimStart(_)
trimStart(s) == IF s # <<>> /\ Head(s) = " " THEN trimStart(Tail(s)) ELSE s

RECURSIVE trimEnd(_)
trimEnd(s) ==
  IF s # <<>> /\ s[Len(s)] = " " THEN trimEnd(SubSeq(s, 1, Len(s) - 1)) ELSE s

trim(s) == trimEnd(trimStart(s))

\* record.s3.object.contentType when it is a non-blank string, else the default.
getContentTypeFromRecord_blankkept(record) ==
  IF record.contentType.present /\ record.contentType.val # <<>>
  THEN trim(record.contentType.val)
  ELSE OctetStream

getContentTypeFromRecord(record) ==
  IF record.contentType.present /\ trim(record.contentType.val) # <<>>
  THEN trim(record.contentType.val)
  ELSE OctetStream

\* ConditionExpression: attribute_exists(fileId).
AttributeExists_always(t, key) == TRUE

AttributeExists_never(t, key) == key \notin DOMAIN t

AttributeExists(t, key) == key \in DOMAIN t

\* UpdateExpression: SET #status, fileSize, contentType, uploadedAt (the later of
\* the file's two definitions of the handler; the earlier one leaves contentType).
UpdateExpression_nosize(size, contentType, uploadedAt) ==
  [status |-> "completed", contentType |-> contentType, uploadedAt |-> uploadedAt]

UpdateExpression_createdAt(size, contentType, uploadedAt) ==
  [status |-> "completed", fileSize |-> size, contentType |-> contentType,
   uploadedAt |-> uploadedAt, createdAt |-> uploadedAt]

UpdateExpression(size, contentType, uploadedAt) ==
  [status |-> "completed", fileSize |-> size, contentType |-> contentType,
   uploadedAt |-> uploadedAt]

\* The catch block of the loop body: log, then go on with the next record.
UpdaterCatch_abort(u) ==
  [u EXCEPT !.idx = Len(u.batch) + 1, !.log = Append(@, "error"), !.result = "threw"]

UpdaterCatch(u) == [u EXCEPT !.idx = @ + 1, !.log = Append(@, "error")]

UpdaterLogged(u) == [u EXCEPT !.idx = @ + 1, !.log = Append(@, "updated")]

\* The end of the for loop: the handler's promise resolves.
UpdaterEnd(u) ==
  IF u.idx > Len(u.batch)
  THEN [u EXCEPT !.pc = "idle", !.batch = <<>>, !.idx = 1,
                 !.result = IF u.result = "threw" THEN "threw" ELSE "returned"]
  ELSE u

IdleUpdater == [pc |-> "idle", batch |-> <<>>, idx |-> 1, log |-> <<>>, result |-> "none"]

\* Notifications of objects that are no tracked upload (a thumbnail, an object
\* put out of band): S3 may deliver them at any time.
UntrackedNotifications ==
  {[key |-> THUMBNAIL_PREFIX \o <<IdToks[1], ".jpg">>, size |-> 1, contentType |-> None]}

\* The batches Lambda can hand over: notifications waiting, each at most once.
Batches ==
  {b \in UNION {[1..k -> evU \cup UntrackedNotifications] : k \in 1..MaxBatch} :
     \A i, j \in DOMAIN b : i # j => b[i] # b[j]}

\* Lambda invokes the handler with a batch; S3 delivers at least once, so a
\* notification may stay queued (redeliver) and be handed over again.
UpdaterInvoke(batch, redeliver) ==
  /\ upd.pc = "idle"
  /\ batch \in Batches
  /\ evU' = IF redeliver THEN evU ELSE evU \ Range(batch)
  /\ upd' = [pc |-> "loop", batch |-> batch, idx |-> 1, log |-> <<>>, result |-> "running"]
  /\ UNCHANGED <<table, objects, now, uuids, issued, resp, del, evC, conv, tmp>>

\* One iteration of the loop: the conditional UpdateItem for record idx.
\* fault: the UpdateItem call fails in the adapter.
UpdaterRecord(fault) ==
  /\ upd.pc = "loop"
  /\ upd.idx <= Len(upd.batch)
  /\ LET record == upd.batch[upd.idx]
         objectKey == record.key
         contentType == getContentTypeFromRecord(record)
     IN IF ~fault /\ AttributeExists(table, objectKey)
        THEN /\ table' = SetAttributes(table, objectKey,
                            UpdateExpression(record.size, contentType, now))
             /\ upd' = UpdaterEnd(UpdaterLogged(upd))
        ELSE /\ upd' = UpdaterEnd(UpdaterCatch(upd))
             /\ UNCHANGED table
  /\ UNCHANGED <<objects, now, uuids, issued, resp, del, evU, evC, conv, tmp>>

\* ------------------------------------------------------- Media Converter
\* detail.object.key.replace(/\+/g, ' ')
replacePlus(key) == [i \in 1..Len(key) |-> IF key[i] = "+" THEN " " ELSE key[i]]

\* decodeURIComponent: an escape sequence becomes its character; a "%" that
\* starts no escape sequence (the token "%") makes it throw URIError.
decodeToken(t) ==
  CASE t = "%2F" -> "/"
    [] t = "%20" -> " "
    [] t = "%2B" -> "+"
    [] OTHER -> t

decodeURIComponent(s) ==
  [ok |-> \A i \in 1..Len(s) : s[i] # "%",
   val |-> [i \in 1..Len(s) |-> decodeToken(s[i])]]

\* key.startsWith(THUMBNAIL_PREFIX)
IsThumbnailKey_never(key) == FALSE

IsThumbnailKey(key) == startsWith(key, THUMBNAIL_PREFIX)

\* contentType.startsWith('image/'), contentType.startsWith('video/')
isImage(contentType) == startsWith(contentType, <<"image", "/">>)

isVideo(contentType) == startsWith(contentType, <<"video", "/">>)

IsMedia_any(contentType) == TRUE

IsMedia(contentType) == isImage(contentType) \/ isVideo(contentType)

\* `${THUMBNAIL_PREFIX}${key}.jpg`
thumbnailKey_inplace(key) == key

thumbnailKey_noext(key) == THUMBNAIL_PREFIX \o key

thumbnailKey(key) == THUMBNAIL_PREFIX \o key \o <<".jpg">>

\* `/tmp/${key.replace(/\//g, '_')}` and `/tmp/thumb_${Date.now()}.jpg`
inputPath(key) ==
  [kind |-> "input", name |-> [i \in 1..Len(key) |-> IF key[i] = "/" THEN "_" ELSE key[i]],
   at |-> 0]

outputPath(t) == [kind |-> "output", name |-> <<"thumb_">>, at |-> t]

IdleConverter ==
  [pc |-> "idle", event |-> <<>>, key |-> <<>>, contentType |-> <<>>, size |-> 0,
   calls |-> {}, log |-> "", result |-> "none"]

\* The handler returns (its promise resolves) after logging.
ConverterReturn(c, log) == [c EXCEPT !.pc = "idle", !.log = log, !.result = "returned"]

\* A throw inside the try block: caught, logged, and the handler returns.
ConverterCatch(c) == ConverterReturn(c, "failed")

\* A throw outside the try block: the handler's promise rejects.
ConverterThrow(c) == [c EXCEPT !.pc = "idle", !.log = "", !.result = "threw"]

\* EventBridge invokes the handler with one event (at least once: redeliver).
\* The code before the try block: decode the key, skip a thumbnail.
ConverterInvoke(ev, redeliver) ==
  /\ conv.pc = "idle"
  /\ ev \in evC
  /\ evC' = IF redeliver THEN evC ELSE evC \ {ev}
  /\ LET decoded == decodeURIComponent(replacePlus(ev.key))
         c == [IdleConverter EXCEPT !.event = ev.key]
     IN IF ~decoded.ok
        THEN conv' = ConverterThrow(c)
        ELSE IF IsThumbnailKey(decoded.val)
        THEN conv' = ConverterReturn([c EXCEPT !.key = decoded.val], "skip-thumbnail")
        ELSE conv' = [c EXCEPT !.pc = "head", !.key = decoded.val, !.result = "running"]
  /\ UNCHANGED <<table, objects, now, uuids, issued, resp, del, evU, upd, tmp>>

\* HeadObject, then the content-type filter.
ConverterHead(fault) ==
  /\ conv.pc = "head"
  /\ LET c == [conv EXCEPT !.calls = @ \cup {"head"}]
     IN IF fault \/ conv.key \notin DOMAIN objects
        THEN conv' = ConverterCatch(c)
        ELSE LET head == objects[conv.key].contentType
                 contentType == IF Truthy(head) THEN head.val ELSE <<>>
                 c2 == [c EXCEPT !.contentType = contentType]
             IN IF ~IsMedia(contentType)
                THEN conv' = ConverterReturn(c2, "skip-non-media")
                ELSE conv' = [c2 EXCEPT !.pc = "get"]
  /\ UNCHANGED <<table, objects, now, uuids, issued, resp, del, evU, evC, upd, tmp>>

\* GetObject and streamToBuffer.
ConverterGet(fault) ==
  /\ conv.pc = "get"
  /\ LET c == [conv EXCEPT !.calls = @ \cup {"get"}]
     IN IF fault \/ conv.key \notin DOMAIN objects
        THEN conv' = ConverterCatch(c)
        ELSE conv' = [c EXCEPT !.pc = "thumbnail", !.size = objects[conv.key].size]
  /\ UNCHANGED <<table, objects, now, uuids, issued, resp, del, evU, evC, upd, tmp>>

\* The scratch files the video branch leaves when its step failAt throws:
\* writeFile, ffmpeg, readFile, unlink(inputPath), unlink(outputPath) in order.
VideoScratch(key, t, failAt) ==
  CASE failAt = "writeFile" -> {}
    [] failAt \in {"ffmpeg"} -> {inputPath(key)}
    [] failAt \in {"readFile", "unlinkInput"} -> {inputPath(key), outputPath(t)}
    [] failAt = "unlinkOutput" -> {outputPath(t)}
    [] OTHER -> {}

VideoSteps == {"writeFile", "ffmpeg", "readFile", "unlinkInput", "unlinkOutput"}

\* The conversion: sharp for an image; for a video the five local steps on
\* scratch files (no other handler sees /tmp, so they form one step here).
ConverterThumbnail(failAt) ==
  /\ conv.pc = "thumbnail"
  /\ IF isImage(conv.contentType)
     THEN /\ failAt \in {"none", "sharp"}
          /\ conv' = IF failAt = "sharp" THEN ConverterCatch(conv)
                     ELSE [conv EXCEPT !.pc = "put"]
          /\ UNCHANGED tmp
     ELSE /\ failAt \in {"none"} \cup VideoSteps
          /\ tmp' = (tmp \ {inputPath(conv.key), outputPath(now)})
                      \cup VideoScratch(conv.key, now, failAt)
          /\ conv' = IF failAt # "none" THEN ConverterCatch(conv)
                     ELSE [conv EXCEPT !.pc = "put"]
  /\ UNCHANGED <<table, objects, now, uuids, issued, resp, del, evU, evC, upd>>

\* PutObject of the thumbnail; S3 notifies both consumers of the new object.
ConverterPut(fault) ==
  /\ conv.pc = "put"
  /\ LET c == [conv EXCEPT !.calls = @ \cup {"put"}]
         key == thumbnailKey(conv.key)
         obj == [contentType |-> Some(ImageJpeg), size |-> conv.size]
     IN IF fault
        THEN /\ conv' = ConverterCatch(c)
             /\ UNCHANGED <<objects, evU, evC>>
        ELSE /\ objects' = PutObject(objects, key, obj)
             /\ evU' = evU \cup {S3Notification(key, obj, None)}
             /\ evC' = evC \cup S3Events(key)
             /\ conv' = ConverterReturn(c, "created")
  /\ UNCHANGED <<table, now, uuids, issued, resp, del, upd, tmp>>

\* Objects written by anyone but a client holding a signed URL.
OutOfBandPut(key, contentType, size, declared) ==
  LET obj == [contentType |-> contentType, size |-> size]
  IN /\ objects' = PutObject(objects, key, obj)
     /\ evU' = evU \cup {S3Notification(key, obj, declared)}
     /\ evC' = evC \cup S3Events(key)
     /\ UNCHANGED <<table, now, uuids, issued, resp, del, upd, conv, tmp>>

\* ------------------------------------------------------- specifications
Init ==
  /\ table = <<>>
  /\ objects = <<>>
  /\ now = 0
  /\ uuids = <<>>
  /\ issued = <<>>
  /\ resp = NoResp
  /\ del = [pc |-> "idle", fileId |-> <<>>]
  /\ evU = {}
  /\ evC = {}
  /\ upd = IdleUpdater
  /\ conv = IdleConverter
  /\ tmp = {}

UploadFaults == {"none", "sign", "put"}

\* The metadata lifecycle: the Upload/API handler, the client and the Metadata
\* Updater (the Media Converter never touches the table).
NextMeta ==
  \/ \E fault \in UploadFaults :
       IssueUploadUrl(Some(<<"photo", ".jpg">>), Some(ImagePng), fault)
  \/ \E id \in Ids, fault \in BOOLEAN : DeleteFileObject(id, fault)
  \/ \E fault \in BOOLEAN : DeleteFileItem(fault)
  \/ \E i \in DOMAIN issued, size \in Sizes : ClientUpload(i, size, None)
  \/ Tick
  \/ \E batch \in Batches, redeliver \in BOOLEAN : UpdaterInvoke(batch, redeliver)
  \/ \E fault \in BOOLEAN : UpdaterRecord(fault)

SpecMeta == Init /\ [][NextMeta]_vars

\* The query parameters GET /upload-url is tried with.
FileNames ==
  {None, Some(<<>>), Some(<<"photo", ".jpg">>), Some(<<"w255">>), Some(<<"w255", "a">>),
   Some(<<"a", "/", "b">>), Some(<<"/">>), Some(<<"a", "\\", "b">>), Some(<<"my", " ", "file">>)}

ContentTypes ==
  {None, Some(<<>>), Some(ImagePng), Some(<<"w99", "/">>), Some(<<"w100", "/">>),
   Some(<<"image", "/", "svg", "+", "xml">>), Some(<<"text", "/", "plain", ";", "q">>),
   Some(<<"image", " ", "png">>), Some(<<"a", "%", "b">>), Some(<<"a", "\\", "b">>)}

\* Request validation: GET /upload-url on every pair of query parameters.
NextValidate ==
  /\ resp = NoResp
  /\ \E f \in FileNames, c \in ContentTypes, fault \in UploadFaults : IssueUploadUrl(f, c, fault)

SpecValidate == Init /\ [][NextValidate]_vars

\* Objects put out of band, with the content type stored with each.
OutOfBandObjects ==
  {[key |-> <<"doc">>, contentType |-> c] :
      c \in {None, Some(ImagePng), Some(VideoMp4), Some(ApplicationPdf)}}
  \cup {[key |-> <<"100", "%">>, contentType |-> Some(ImagePng)],
        [key |-> <<"thumbnails", "%2F", "x">>, contentType |-> Some(ImagePng)]}

\* The Media Converter on every object the bucket can receive.
NextConv ==
  \/ \E o \in OutOfBandObjects, size \in Sizes : OutOfBandPut(o.key, o.contentType, size, None)
  \/ \E ev \in evC, redeliver \in BOOLEAN : ConverterInvoke(ev, redeliver)
  \/ \E fault \in BOOLEAN : ConverterHead(fault)
  \/ \E fault \in BOOLEAN : ConverterGet(fault)
  \/ \E failAt \in {"none", "sharp"} \cup VideoSteps : ConverterThumbnail(failAt)
  \/ \E fault \in BOOLEAN : ConverterPut(fault)

SpecConv == Init /\ [][NextConv]_vars

\* The states one file can be left in by the handlers above: never issued;
\* issued and not uploaded; written by the client, both notifications still
\* to be delivered; recorded by the Metadata Updater; recorded and converted.
\* The file is photo.jpg, issued first at time 0.
FileStages == {"unissued", "pending", "written", "uploaded", "converted"}

StagedFile(stage, contentType, size, declared) ==
  LET id == <<IdToks[1]>>
      rec == NewFileRecord(id, <<"photo", ".jpg">>, contentType, 0)
      obj == [contentType |-> Some(contentType), size |-> size]
      note == S3Notification(id, obj, declared)
      thumb == [contentType |-> Some(ImageJpeg), size |-> size]
      t0 == PutItem(<<>>, rec)
      t1 == SetAttributes(t0, id, UpdateExpression(note.size,
                                     getContentTypeFromRecord(note), 0))
      o1 == PutObject(<<>>, id, obj)
  IN [table |-> CASE stage = "unissued" -> <<>>
                  [] stage \in {"pending", "written"} -> t0
                  [] OTHER -> t1,
      objects |-> CASE stage \in {"unissued", "pending"} -> <<>>
                    [] stage \in {"written", "uploaded"} -> o1
                    [] OTHER -> PutObject(o1, thumbnailKey(id), thumb),
      uuids |-> IF stage = "unissued" THEN <<>> ELSE <<id>>,
      issued |-> IF stage = "unissued" THEN <<>>
                 ELSE <<[fileId |-> id, contentType |-> contentType]>>,
      evU |-> IF stage = "written" THEN {note} ELSE {},
      evC |-> IF stage \in {"written", "uploaded"} THEN S3Events(id) ELSE {}]

\* The path parameter {fileId}: one path segment, so it holds no "/".
PathIds == Ids \cup {<<"thumbnails", "%2F", IdToks[1], ".jpg">>}

InitApi ==
  /\ \E stage \in FileStages :
       LET st == StagedFile(stage, ImagePng, 1, None)
       IN /\ table = st.table
          /\ objects = st.objects
          /\ uuids = st.uuids
          /\ issued = st.issued
          /\ evU = st.evU
          /\ evC = st.evC
  /\ now = 0
  /\ resp = NoResp
  /\ del = [pc |-> "idle", fileId |-> <<>>]
  /\ upd = IdleUpdater
  /\ conv = IdleConverter
  /\ tmp = {}

\* The Upload/API handler alone, one request after another, on a bucket and a
\* table nothing else writes to meanwhile.
NextApi ==
  \/ \E fault \in UploadFaults :
       IssueUploadUrl(Some(<<"photo", ".jpg">>), Some(ImagePng), fault)
  \/ \E id \in PathIds \cup {<<>>}, fault \in BOOLEAN : IssueThumbnailUrl(id, fault)
  \/ \E fault \in BOOLEAN : ListFiles(fault)
  \/ \E id \in PathIds \cup {<<>>}, fault \in BOOLEAN : IssueDownloadUrl(id, fault)
  \/ \E id \in PathIds, fault \in BOOLEAN : DeleteFileObject(id, fault)
  \/ \E fault \in BOOLEAN : DeleteFileItem(fault)

SpecApi == InitApi /\ [][NextApi]_vars

\* One object written through its signed URL: content type as signed, size as
\* sent; S3 puts no content type in the notification.
InitPair ==
  /\ \E contentType \in {ImagePng, VideoMp4, ApplicationPdf}, size \in Sizes :
       LET st == StagedFile("written", contentType, size, None)
       IN /\ table = st.table
          /\ objects = st.objects
          /\ uuids = st.uuids
          /\ issued = st.issued
          /\ evU = st.evU
          /\ evC = st.evC
  /\ now = 0
  /\ resp = NoResp
  /\ del = [pc |-> "idle", fileId |-> <<>>]
  /\ upd = IdleUpdater
  /\ conv = IdleConverter
  /\ tmp = {}

\* The two consumers of one written object, running concurrently and without
\* faults, each notification delivered once; the client asks for the thumbnail
\* of its file at any time.
NextPair ==
  \/ \E batch \in Batches : UpdaterInvoke(batch, FALSE)
  \/ UpdaterRecord(FALSE)
  \/ \E ev \in evC : ConverterInvoke(ev, FALSE)
  \/ ConverterHead(FALSE)
  \/ ConverterGet(FALSE)
  \/ ConverterThumbnail("none")
  \/ ConverterPut(FALSE)
  \/ \E i \in DOMAIN issued : IssueThumbnailUrl(issued[i].fileId, FALSE)

SpecPair == InitPair /\ [][NextPair]_vars

\* The values record.s3.object.contentType is tried with: absent, empty,
\* blank, a content type, and one with blanks around it.
DeclaredContentTypes ==
  {None, Some(<<>>), Some(<<" ">>), Some(VideoMp4), Some(<<" ">> \o VideoMp4 \o <<" ">>)}

\* One signed URL was issued for photo.jpg and nothing is written yet.
InitUpdate ==
  /\ LET st == StagedFile("pending", ImagePng, 1, None)
     IN /\ table = st.table
        /\ objects = st.objects
        /\ uuids = st.uuids
        /\ issued = st.issued
        /\ evU = st.evU
        /\ evC = st.evC
  /\ now = 0
  /\ resp = NoResp
  /\ del = [pc |-> "idle", fileId |-> <<>>]
  /\ upd = IdleUpdater
  /\ conv = IdleConverter
  /\ tmp = {}

\* The Metadata Updater on every notification payload a write of the file can
\* bring it.
NextUpdate ==
  \/ \E i \in DOMAIN issued, size \in Sizes, declared \in DeclaredContentTypes :
       ClientUpload(i, size, declared)
  \/ Tick
  \/ \E batch \in Batches : UpdaterInvoke(batch, FALSE)
  \/ \E fault \in BOOLEAN : UpdaterRecord(fault)

SpecUpdate == InitUpdate /\ [][NextUpdate]_vars

\* The two consumers of one written object with their adapter faults, each
\* notification handed over once: the written object's and those of whatever
\* the handlers write themselves.
UpdaterRuns ==
  \/ \E batch \in Batches : Range(batch) \subseteq evU /\ UpdaterInvoke(batch, FALSE)
  \/ \E fault \in BOOLEAN : UpdaterRecord(fault)

ConverterRuns ==
  \/ \E ev \in evC : ConverterInvoke(ev, FALSE)
  \/ \E fault \in BOOLEAN : ConverterHead(fault)
  \/ \E fault \in BOOLEAN : ConverterGet(fault)
  \/ \E failAt \in {"none", "sharp"} \cup VideoSteps : ConverterThumbnail(failAt)
  \/ \E fault \in BOOLEAN : ConverterPut(fault)

NextDerive == UpdaterRuns \/ ConverterRuns

\* Lambda hands a waiting notification to its function and runs every
\* invocation to its end.
SpecDerive ==
  InitPair /\ [][NextDerive]_vars /\ WF_vars(UpdaterRuns) /\ WF_vars(ConverterRuns)

\* The upload lifecycle of the issued file without adapter faults and without
\* a delete of that file; other files may be deleted.
UpdaterDelivers ==
  \/ \E batch \in Batches, redeliver \in BOOLEAN :
       Range(batch) \subseteq evU /\ UpdaterInvoke(batch, redeliver)
  \/ UpdaterRecord(FALSE)

NextLive ==
  \/ \E i \in DOMAIN issued, size \in Sizes, declared \in {None, Some(VideoMp4)} :
       ClientUpload(i, size, declared)
  \/ Tick
  \/ \E id \in Ids \ {issued[1].fileId} : DeleteFileObject(id, FALSE)
  \/ DeleteFileItem(FALSE)
  \/ UpdaterDelivers

\* S3 delivers a waiting notification and Lambda runs the invocation to its end.
SpecLive == InitUpdate /\ [][NextLive]_vars /\ WF_vars(UpdaterDelivers)

\* ================================================================ claims
Pending(t, k) == k \in DOMAIN t /\ t[k].status = "pending"
Completed(t, k) == k \in DOMAIN t /\ t[k].status = "completed"
Last(s) == s[Len(s)]

\* A step of the Metadata Updater's loop body (one record handled).
UpdaterStep == upd.pc = "loop" /\ upd' # upd

\* C1: the status of a FileRecord never regresses. No step turns the record of a
\* fileId that is completed, or that was generated and has no record (any more),
\* into a pending record.
C1_StatusNeverRegresses ==
  [][\A k \in Ids :
       (Completed(table, k) \/ (k \in Range(uuids) /\ k \notin DOMAIN table))
         => ~Pending(table', k)]_vars

\* C1 witness: a record completed at time 0 is still completed at time 1, after a
\* second upload URL was issued at time 1 and a DELETE went through.
C1_Witness ==
  \E k \in Ids :
    /\ Completed(table, k) /\ table[k].uploadedAt = 0
    /\ \E j \in Ids \ {k} : Pending(table, j) /\ table[j].createdAt = 1
    /\ now = 1

\* C2: onObjectWritten for a key that has no FileRecord fails locally (logged,
\* not thrown) and leaves the metadata table unchanged.
C2_NoRecordNoWrite ==
  [][(UpdaterStep /\ upd.batch[upd.idx].key \notin DOMAIN table)
       => /\ table' = table
          /\ Last(upd'.log) = "error"
          /\ upd'.result # "threw"]_vars

\* C2 witness: the first record of a batch was for a fileId whose record had been
\* deleted, or for a thumbnail key; it was logged as an error and the table
\* holds no record for it.
C2_Witness ==
  /\ upd.pc = "loop" /\ upd.idx = 2 /\ upd.log = <<"error">>
  /\ upd.batch[1].key \notin DOMAIN table
  /\ upd.batch[1].key \in Range(uuids)
  /\ upd.batch[2].key = THUMBNAIL_PREFIX \o <<IdToks[1], ".jpg">>
  /\ table # <<>>

\* C3 (as claimed): onObjectWritten on a record that is already completed, with
\* the same key, size and content type, leaves every field of the record unchanged.
C3_ReplayLeavesRecordUnchanged ==
  [][(/\ UpdaterStep
      /\ Completed(table, upd.batch[upd.idx].key)
      /\ table[upd.batch[upd.idx].key].fileSize = upd.batch[upd.idx].size
      /\ table[upd.batch[upd.idx].key].contentType
           = getContentTypeFromRecord(upd.batch[upd.idx]))
       => table'[upd.batch[upd.idx].key] = table[upd.batch[upd.idx].key]]_vars

\* C4: a successful GET /upload-url returns a fileId no earlier success returned,
\* and when it returns the table holds a pending record with that fileId.
C4_FreshIdPendingRecord ==
  [][Len(issued') = Len(issued) + 1
       => LET fileId == Last(issued').fileId
          IN /\ \A i \in 1..Len(issued) : issued[i].fileId # fileId
             /\ Pending(table', fileId)
             /\ table'[fileId].fileId = fileId
             /\ resp'.status = 200]_vars

\* C4 witness: two calls succeeded.
C4_Witness ==
  /\ Len(issued) = 2
  /\ resp.op = "upload-url" /\ resp.status = 200
  /\ Pending(table, issued[2].fileId)

\* C5: a fileName of length 0, longer than 255 characters or holding a "/" is
\* answered 400, whatever the contentType.
BadFileName(name) == StrLen(name) = 0 \/ StrLen(name) > 255 \/ includes(name, "slash")

C5_BadFileNameIs400 ==
  (resp.op = "upload-url" /\ resp.fileName.present /\ BadFileName(resp.fileName.val))
    => (resp.status = 400 /\ table = <<>>)

\* C5 witness: a 256-character name with a valid content type was answered 400.
C5_Witness ==
  /\ resp.op = "upload-url" /\ resp.status = 400
  /\ resp.fileName = Some(<<"w255", "a">>)
  /\ resp.contentType = Some(ImagePng)

\* C6: a contentType holding a character other than a word character, "-", "+",
\* "." and "/", or longer than 100 characters, is answered 400, whatever the fileName.
BadContentType(type) ==
  \/ \E i \in 1..Len(type) :
       TokChars(type[i]) \ {"word", "hyphen", "plus", "dot", "slash"} # {}
  \/ StrLen(type) > 100

C6_BadContentTypeIs400 ==
  (resp.op = "upload-url" /\ resp.contentType.present /\ BadContentType(resp.contentType.val))
    => (resp.status = 400 /\ table = <<>>)

\* C6 witness: a 101-character content type of allowed characters, with a valid
\* file name, was answered 400.
C6_Witness ==
  /\ resp.op = "upload-url" /\ resp.status = 400
  /\ resp.fileName = Some(<<"photo", ".jpg">>)
  /\ resp.contentType = Some(<<"w100", "/">>)

\* C7: onObjectCreated for a key that, decoded, lies under the thumbnail prefix
\* calls nothing on the object store (no head, no get, no put) and returns.
DecodedEvent == decodeURIComponent(replacePlus(conv.event))

C7_ThumbnailKeySkipped ==
  (conv.result # "none" /\ DecodedEvent.ok
     /\ Len(DecodedEvent.val) >= 2
     /\ DecodedEvent.val[1] = "thumbnails" /\ DecodedEvent.val[2] = "/")
    => (conv.pc = "idle" /\ conv.calls = {} /\ conv.result = "returned")

\* C7 witness: after storing a thumbnail, the converter was invoked for an object
\* whose key lies under the prefix once decoded, and skipped it.
C7_Witness ==
  /\ conv.result = "returned" /\ conv.log = "skip-thumbnail"
  /\ conv.event = <<"thumbnails", "%2F", "x">>
  /\ conv.event \in DOMAIN objects
  /\ THUMBNAIL_PREFIX \o <<"doc", ".jpg">> \in DOMAIN objects

\* C8: for an object whose content type starts with neither image/ nor video/
\* (a missing content type included) the converter downloads nothing and stores
\* no thumbnail: after the probe it returns.
NotMedia(contentType) ==
  ~(\/ (Len(contentType) >= 2 /\ contentType[1] = "image" /\ contentType[2] = "/")
    \/ (Len(contentType) >= 2 /\ contentType[1] = "video" /\ contentType[2] = "/"))

C8_NonMediaSkipped ==
  (conv.pc # "head" /\ "head" \in conv.calls /\ NotMedia(conv.contentType))
    => (conv.pc = "idle" /\ conv.calls = {"head"} /\ conv.result = "returned")

\* C8 witness: an object stored without a content type was probed and skipped.
C8_Witness ==
  /\ conv.log = "skip-non-media"
  /\ conv.contentType = <<>>
  /\ conv.key \in DOMAIN objects /\ objects[conv.key].contentType = None
  /\ thumbnailKey(conv.key) \notin DOMAIN objects

\* C9 (as claimed): the Media Converter never ends by throwing.
C9_ConverterNeverThrows == conv.result # "threw"

\* C10: a failure on one notification of a batch does not stop the loop: every
\* step handles exactly the next record, the handler returns only after the last
\* one and never throws, and a record that exists is completed unless its own
\* update failed.
C10_BatchFailuresIsolated ==
  [][UpdaterStep
       => /\ Len(upd'.log) = Len(upd.log) + 1
          /\ upd'.result # "threw"
          /\ IF upd.idx < Len(upd.batch)
             THEN upd'.pc = "loop" /\ upd'.idx = upd.idx + 1 /\ upd'.batch = upd.batch
             ELSE upd'.pc = "idle" /\ upd'.result = "returned"
          /\ LET key == upd.batch[upd.idx].key
             IN key \in DOMAIN table
                  => \/ Completed(table', key) /\ Last(upd'.log) = "updated"
                     \/ table' = table /\ Last(upd'.log) = "error"]_vars

\* C10 witness: the first notification of a batch failed, the second one was
\* still handled and its record completed, and the handler returned.
C10_Witness ==
  /\ upd.pc = "idle" /\ upd.result = "returned"
  /\ upd.log = <<"error", "updated">>
  /\ \E k \in Ids : Completed(table, k)

\* ---------------------------------------------------------------- C11
\* C11: GET /files/{fileId} answers 404 whenever no object is stored at key
\* fileId; so a request that is answered 200 with a download URL names a key
\* at which an object is stored when it is answered.
C11_DownloadOfMissingObjectIs404 ==
  [][(resp' # resp /\ resp'.op = "download" /\ resp'.status = 200)
       => resp'.url \in DOMAIN objects]_vars

\* ---------------------------------------------------------------- C12
\* C12: GET /files/{fileId}/thumbnail answers 404 whenever no object is stored
\* at thumbnails/<fileId>.jpg; so a request that is answered 200 with a
\* thumbnail URL names a key at which a thumbnail is stored when it is answered.
C12_ThumbnailOfMissingObjectIs404 ==
  [][(resp' # resp /\ resp'.op = "thumbnail" /\ resp'.status = 200)
       => resp'.url \in DOMAIN objects]_vars

\* ---------------------------------------------------------------- C13
\* The two awaits of DELETE /files/{fileId}.
DeleteObjectStep == del.pc = "idle" /\ del'.pc = "item"
DeleteReturn == del.pc = "item" /\ del'.pc = "idle"

\* C13: without adapter faults DELETE /files/{fileId} answers 200 whether or
\* not the object and the record exist; when it returns neither is present;
\* and a delete of a file that is already gone changes neither the bucket nor
\* the table.
C13_DeleteUnconditionalIdempotent ==
  [][/\ DeleteObjectStep =>
          /\ del'.fileId \notin DOMAIN objects'
          /\ del'.fileId \notin DOMAIN objects => objects' = objects
     /\ (DeleteReturn /\ resp'.logged = "") =>
          /\ resp'.op = "delete" /\ resp'.status = 200
          /\ del.fileId \notin DOMAIN table'
          /\ del.fileId \notin DOMAIN objects'
          /\ del.fileId \notin DOMAIN table => table' = table]_vars

\* A file that was uploaded, recorded and converted has been deleted.
C13_Witness ==
  /\ resp.op = "delete" /\ resp.status = 200 /\ del.pc = "idle"
  /\ thumbnailKey(<<IdToks[1]>>) \in DOMAIN objects
  /\ <<IdToks[1]>> \notin DOMAIN objects
  /\ <<IdToks[1]>> \notin DOMAIN table

\* ---------------------------------------------------------------- C14
ThumbnailObjects(os) == {k \in DOMAIN os : startsWith(k, THUMBNAIL_PREFIX)}

\* C14: DELETE /files/{fileId} leaves every object under the thumbnail prefix
\* as it was: no step of the delete removes, adds or rewrites one.
C14_DeleteKeepsThumbnails ==
  [][(DeleteObjectStep \/ DeleteReturn) =>
       /\ ThumbnailObjects(objects') = ThumbnailObjects(objects)
       /\ \A k \in ThumbnailObjects(objects) : objects'[k] = objects[k]]_vars

\* The converted file was deleted: only its thumbnail is left in the bucket.
C14_Witness ==
  /\ resp.op = "delete" /\ resp.status = 200 /\ table = <<>>
  /\ DOMAIN objects = {thumbnailKey(<<IdToks[1]>>)}
  /\ objects[thumbnailKey(<<IdToks[1]>>)].contentType = Some(ImageJpeg)

\* ---------------------------------------------------------------- C15
\* C15: whenever the Media Converter has returned, success or failure, no
\* scratch file of its video branch (the persisted input, the extracted
\* frame) is left in local storage.
C15_NoScratchFileLeft == conv.pc = "idle" => tmp = {}

\* ---------------------------------------------------------------- C16
\* Both notifications of the written object are consumed and both handlers
\* have returned.
Quiescent == evU = {} /\ evC = {} /\ upd.pc = "idle" /\ conv.pc = "idle"

\* The record and the objects left by running the Metadata Updater and the
\* Media Converter one after the other on the object written for file id.
SequentialTable(id, contentType, size) ==
  id :> [fileId |-> id, fileName |-> <<"photo", ".jpg">>, contentType |-> OctetStream,
         status |-> "completed", createdAt |-> 0, fileSize |-> size, uploadedAt |-> 0]

SequentialObjects(id, contentType, size) ==
  LET original == id :> [contentType |-> Some(contentType), size |-> size]
      thumbnail == (<<"thumbnails", "/">> \o id \o <<".jpg">>)
                     :> [contentType |-> Some(ImageJpeg), size |-> size]
  IN IF contentType \in {ImagePng, VideoMp4} THEN original @@ thumbnail ELSE original

\* C16: the Metadata Updater and the Media Converter, run concurrently on one
\* written object, write disjoint storage (no Updater step changes an object,
\* no Converter step changes the table or an object already stored), and every
\* interleaving of their steps ends in the table and the bucket that running
\* them one after the other leaves.
C16_ConsumersCommute ==
  /\ [][/\ upd' # upd => objects' = objects
        /\ conv' # conv =>
             /\ table' = table
             /\ \A k \in DOMAIN objects : k \in DOMAIN objects' /\ objects'[k] = objects[k]]_vars
  /\ [](Quiescent =>
          LET id == issued[1].fileId
              contentType == issued[1].contentType
              size == objects[id].size
          IN /\ table = SequentialTable(id, contentType, size)
             /\ objects = SequentialObjects(id, contentType, size))

\* Both handlers are in the middle of their run for the same object.
C16_Witness ==
  /\ upd.pc = "loop" /\ upd.batch[upd.idx].key = issued[1].fileId
  /\ conv.pc = "put" /\ conv.key = issued[1].fileId

\* ---------------------------------------------------------------- C17
\* C17: every request of the Upload/API handler during which an adapter call
\* failed (signing a URL, the table's put, scan or delete, the object delete)
\* is answered 500 with the fixed body "Internal server error".
C17_EveryFaultIs500 ==
  resp.logged # "" => resp.status = 500 /\ resp.error = "Internal server error"

\* ---------------------------------------------------------------- C18
\* C18: a fault-free run of the Media Converter on an uploaded image or video
\* at key k writes one object only, thumbnails/<k>.jpg with content type
\* image/jpeg, and changes no other object; once it is stored, GET
\* /files/k/thumbnail answers 200 with a signed URL for that same key.
C18_ThumbnailWrittenAndServed ==
  [][/\ (conv' # conv /\ conv.pc # "put") => objects' = objects
     /\ (conv' # conv /\ conv.pc = "put") =>
          LET written == <<"thumbnails", "/">> \o conv.event \o <<".jpg">>
          IN /\ DOMAIN objects' = DOMAIN objects \cup {written}
             /\ objects'[written].contentType = Some(ImageJpeg)
             /\ \A k \in DOMAIN objects \ {written} : objects'[k] = objects[k]
     /\ (resp' # resp /\ resp'.op = "thumbnail" /\ ThumbnailObjects(objects) # {}) =>
          /\ resp'.status = 200
          /\ resp'.url = <<"thumbnails", "/">> \o issued[1].fileId \o <<".jpg">>
          /\ resp'.url \in ThumbnailObjects(objects)]_vars

\* The converter created the thumbnail and the client was given its URL.
C18_Witness ==
  /\ conv.log = "created" /\ conv.pc = "idle"
  /\ resp.op = "thumbnail" /\ resp.status = 200
  /\ resp.url \in DOMAIN objects
  /\ objects[resp.url].contentType = Some(ImageJpeg)

\* ---------------------------------------------------------------- C19
\* The record the Metadata Updater is at, and the outcome of its UpdateItem.
CurrentRecord == upd.batch[upd.idx]
Updated == UpdaterStep /\ Len(upd'.log) > Len(upd.log) /\ Last(upd'.log) = "updated"
NonBlank(s) == \E i \in 1..Len(s) : s[i] # " "

C20_CreationAttributesImmutable ==
  [][\A k \in DOMAIN table \cap DOMAIN table' :
       /\ table'[k].createdAt = table[k].createdAt
       /\ table'[k].fileName = table[k].fileName
       /\ table'[k].fileId = table[k].fileId
       /\ table'[k].fileId = k]_vars

\* A record created at time 0 was completed at time 1 and kept its creation
\* attributes.
C20_Witness ==
  \E k \in Ids :
    /\ Completed(table, k) /\ table[k].uploadedAt = 1
    /\ table[k].createdAt = 0 /\ table[k].fileName = <<"photo", ".jpg">>
    /\ table[k].fileId = k

\* ---------------------------------------------------------------- C21
\* C21: in every state of the table a record has fileSize if and only if it
\* has uploadedAt, and if and only if its status is completed.
C21_SizeAndTimeIffCompleted ==
  \A k \in DOMAIN table :
    /\ ("fileSize" \in DOMAIN table[k]) <=> (table[k].status = "completed")
    /\ ("uploadedAt" \in DOMAIN table[k]) <=> (table[k].status = "completed")

\* A pending record with neither attribute beside a completed one with both.
C21_Witness ==
  \E k, j \in DOMAIN table :
    /\ table[k].status = "pending" /\ DOMAIN table[k] \cap {"fileSize", "uploadedAt"} = {}
    /\ table[j].status = "completed" /\ {"fileSize", "uploadedAt"} \subseteq DOMAIN table[j]

\* ---------------------------------------------------------------- C22
\* C22: derivation never feeds on itself. Of one client upload and all the
\* notifications that follow from it: the Media Converter writes a thumbnail
\* at most once, and only for a key outside the thumbnail prefix; no object is
\* ever stored under thumbnails/thumbnails/; no record exists for a key under
\* the thumbnail prefix; and eventually no notification is pending and both
\* handlers are idle, for good.
C22_DerivationNeverFeedsOnItself ==
  /\ [][(conv.pc = "put" /\ objects' # objects) =>
          /\ ThumbnailObjects(objects) = {}
          /\ ~startsWith(conv.key, THUMBNAIL_PREFIX)]_vars
  /\ [](/\ \A k \in DOMAIN objects : ~startsWith(k, THUMBNAIL_PREFIX \o THUMBNAIL_PREFIX)
        /\ \A k \in DOMAIN table : ~startsWith(k, THUMBNAIL_PREFIX))
  /\ <>[]Quiescent

\* The thumbnail was written, its own event was skipped by the converter, its
\* own notification was refused by the table, and nothing is pending.
C22_Witness ==
  /\ Quiescent
  /\ Cardinality(ThumbnailObjects(objects)) = 1
  /\ conv.log = "skip-thumbnail"
  /\ upd.log # <<>> /\ Last(upd.log) = "error"
  /\ DOMAIN table = {issued[1].fileId}

\* ---------------------------------------------------------------- C23
\* C23: in every reachable state, whatever the interleaving of GET /upload-url,
\* client uploads through signed URLs, the two steps of DELETE /files/{fileId}
\* and the event handlers, every object stored at a key outside the thumbnail
\* prefix has a record whose fileId is that key.
C23_EveryObjectHasRecord ==
  \A k \in DOMAIN objects : ~startsWith(k, THUMBNAIL_PREFIX) => k \in DOMAIN table

\* ---------------------------------------------------------------- C24
\* C24: once the client has uploaded the object of an issued fileId, and with
\* its notification delivered under weak fairness, no adapter fault and no
\* delete of that fileId, the record of that fileId eventually has status
\* completed and keeps it from then on.
C24_UploadEventuallyCompleted ==
  (issued[1].fileId \in DOMAIN objects) ~> [](Completed(table, issued[1].fileId))

\* The uploaded file's record is completed and no notification is waiting.
C24_Witness ==
  /\ issued[1].fileId \in DOMAIN objects
  /\ Completed(table, issued[1].fileId)
  /\ table[issued[1].fileId].fileSize = objects[issued[1].fileId].size
  /\ evU = {} /\ upd.pc = "idle" /\ upd.result = "returned"

====
